---- MODULE Spec2Model ----
(***************************************************************************)
(* The ignite program (programs/ignite/src/lib.rs): one GameState account  *)
(* and its escrow vault, driven by the five instructions initialize_game,  *)
(* join_game, submit_move, trigger_collapse and declare_winner.            *)
(*                                                                         *)
(* Each instruction handler is an operator from the loaded account and the *)
(* instruction's inputs to an Outcome: the error it returns ("Ok" for      *)
(* Ok(())), the in-memory account as the handler left it, and the token    *)
(* transfer it made.  An instruction is one transaction: the account and   *)
(* the token transfer are kept only when the handler returns Ok (Commit),  *)
(* a returned error or a panic discards both.                              *)
(***************************************************************************)
EXTENDS Integers, Sequences, FiniteSets

\* ---- program constants -------------------------------------------------
MAX_PLAYERS == 10
MAX_GRID_SIZE == 10
U8_MAX == 255

\* ---- bounds of the exploration -----------------------------------------
\* u64 amounts (buy_in, prize_pool) are explored at this many bits
AmountBits == 8
\* coordinates offered to join, move and collapse are 0..MaxCoord
MaxCoord == 2
\* collapses are explored while collapse_round < MaxRounds
MaxRounds == 1

U64_MAX == 2^AmountBits - 1

None == "None"
Authority == "auth"
Pubkeys == {"p1", "p2"}
Coords == 0..MaxCoord
GridSizes == {0, 1, 2, MAX_GRID_SIZE + 1}
BuyIns == {0, 100, U64_MAX}
\* the callers tried on the authority-only instructions
Callers == {Authority, "p1"}
\* the tile lists offered to a collapse: the empty list, every single tile
\* and every pair of distinct tiles, in row-major order
Tiles == Coords \X Coords
TileLists ==
    {<<>>} \cup {<<a>> : a \in Tiles}
           \cup {<<ab[1], ab[2]>> : ab \in
                    {p \in Tiles \X Tiles :
                        \/ p[1][2] < p[2][2]
                        \/ (p[1][2] = p[2][2] /\ p[1][1] < p[2][1])}}

VARIABLES
    game,        \* the GameState account
    collected,   \* tokens moved into the escrow vault by committed joins
    paidOut,     \* tokens moved out of the escrow vault by committed settles
    payouts,     \* number of committed escrow-to-winner transfers
    paidTo,      \* owner of the token account the last payout went to
    lastCmd,     \* the instruction of the last transaction
    lastRes      \* its result: "Ok" or the error

vars == <<game, collected, paidOut, payouts, paidTo, lastCmd, lastRes>>

\* The account before initialize_game: allocated zeroed by `init`.
Uninitialized ==
    [initialized |-> FALSE, authority |-> None, status |-> 0, grid_size |-> 0,
     grid |-> <<>>, players |-> <<>>, buy_in |-> 0, prize_pool |-> 0,
     winner |-> None, collapse_round |-> 0]

PlayerState(pubkey, x, y, alive) ==
    [pubkey |-> pubkey, x |-> x, y |-> y, alive |-> alive]

\* What a handler returns: err, the account in memory, the transfer made.
Outcome(err, g, amount, to) ==
    [err |-> err, game |-> g, amount |-> amount, to |-> to]

\* usize index of tile (x, y); grid is 0-based in the source, 1-based here
TileIdx(g, x, y) == y * g.grid_size + x

GridAt(g, idx) == g.grid[idx + 1]

initialize_game(g, authority, buy_in, grid_size) ==
    IF ~(grid_size <= MAX_GRID_SIZE) THEN Outcome("InvalidGridSize", g, 0, None)
    ELSE Outcome("Ok",
                 [initialized |-> TRUE, authority |-> authority, status |-> 0,
                  grid_size |-> grid_size,
                  grid |-> [i \in 1..(grid_size * grid_size) |-> 0],
                  players |-> <<>>, buy_in |-> buy_in, prize_pool |-> 0,
                  winner |-> None, collapse_round |-> 0],
                 0, None)

\* join_game adding the buy-in with wrapping_add in place of checked_add
join_game_wrapping_add(g, player_pubkey, start_x, start_y, transfer_ok) ==
    IF ~(g.status = 0) THEN Outcome("GameNotJoinable", g, 0, None)
    ELSE IF ~(Len(g.players) < MAX_PLAYERS) THEN Outcome("GameFull", g, 0, None)
    ELSE LET tile_idx == TileIdx(g, start_x, start_y) IN
      IF ~(tile_idx < Len(g.grid)) THEN Outcome("OutOfBounds", g, 0, None)
      ELSE IF ~(GridAt(g, tile_idx) = 0) THEN Outcome("TileIsLava", g, 0, None)
      ELSE IF \E i \in 1..Len(g.players) :
                 g.players[i].x = start_x /\ g.players[i].y = start_y
        THEN Outcome("TileOccupied", g, 0, None)
      ELSE IF ~transfer_ok THEN Outcome("TokenTransferFailed", g, 0, None)
      ELSE LET g1 == [g EXCEPT !.players =
                         Append(@, PlayerState(player_pubkey, start_x, start_y, TRUE))]
               g2 == [g1 EXCEPT !.prize_pool = (@ + g1.buy_in) % (U64_MAX + 1)]
               g3 == IF Len(g2.players) >= 2 THEN [g2 EXCEPT !.status = 1] ELSE g2
           IN Outcome("Ok", g3, g.buy_in, "escrow")

\* join_game activating the game at the first player (players.len() >= 1)
join_game_activates_early(g, player_pubkey, start_x, start_y, transfer_ok) ==
    IF ~(g.status = 0) THEN Outcome("GameNotJoinable", g, 0, None)
    ELSE IF ~(Len(g.players) < MAX_PLAYERS) THEN Outcome("GameFull", g, 0, None)
    ELSE LET tile_idx == TileIdx(g, start_x, start_y) IN
      IF ~(tile_idx < Len(g.grid)) THEN Outcome("OutOfBounds", g, 0, None)
      ELSE IF ~(GridAt(g, tile_idx) = 0) THEN Outcome("TileIsLava", g, 0, None)
      ELSE IF \E i \in 1..Len(g.players) :
                 g.players[i].x = start_x /\ g.players[i].y = start_y
        THEN Outcome("TileOccupied", g, 0, None)
      ELSE IF ~transfer_ok THEN Outcome("TokenTransferFailed", g, 0, None)
      ELSE LET g1 == [g EXCEPT !.players =
                         Append(@, PlayerState(player_pubkey, start_x, start_y, TRUE))]
           IN
        IF g1.prize_pool + g1.buy_in > U64_MAX
        THEN Outcome("Panic", g1, g.buy_in, "escrow")
        ELSE LET g2 == [g1 EXCEPT !.prize_pool = @ + g1.buy_in]
                 g3 == IF Len(g2.players) >= 1 THEN [g2 EXCEPT !.status = 1] ELSE g2
             IN Outcome("Ok", g3, g.buy_in, "escrow")

\* join_game without the "spot not occupied" loop
join_game_no_occupancy_check(g, player_pubkey, start_x, start_y, transfer_ok) ==
    IF ~(g.status = 0) THEN Outcome("GameNotJoinable", g, 0, None)
    ELSE IF ~(Len(g.players) < MAX_PLAYERS) THEN Outcome("GameFull", g, 0, None)
    ELSE LET tile_idx == TileIdx(g, start_x, start_y) IN
      IF ~(tile_idx < Len(g.grid)) THEN Outcome("OutOfBounds", g, 0, None)
      ELSE IF ~(GridAt(g, tile_idx) = 0) THEN Outcome("TileIsLava", g, 0, None)
      ELSE IF ~transfer_ok THEN Outcome("TokenTransferFailed", g, 0, None)
      ELSE LET g1 == [g EXCEPT !.players =
                         Append(@, PlayerState(player_pubkey, start_x, start_y, TRUE))]
           IN
        IF g1.prize_pool + g1.buy_in > U64_MAX
        THEN Outcome("Panic", g1, g.buy_in, "escrow")
        ELSE LET g2 == [g1 EXCEPT !.prize_pool = @ + g1.buy_in]
                 g3 == IF Len(g2.players) >= 2 THEN [g2 EXCEPT !.status = 1] ELSE g2
             IN Outcome("Ok", g3, g.buy_in, "escrow")

\* join_game open to an active game too (status != 2 for status == 0)
join_game_while_active(g, player_pubkey, start_x, start_y, transfer_ok) ==
    IF ~(g.status # 2) THEN Outcome("GameNotJoinable", g, 0, None)
    ELSE IF ~(Len(g.players) < MAX_PLAYERS) THEN Outcome("GameFull", g, 0, None)
    ELSE LET tile_idx == TileIdx(g, start_x, start_y) IN
      IF ~(tile_idx < Len(g.grid)) THEN Outcome("OutOfBounds", g, 0, None)
      ELSE IF ~(GridAt(g, tile_idx) = 0) THEN Outcome("TileIsLava", g, 0, None)
      ELSE IF \E i \in 1..Len(g.players) :
                 g.players[i].x = start_x /\ g.players[i].y = start_y
        THEN Outcome("TileOccupied", g, 0, None)
      ELSE IF ~transfer_ok THEN Outcome("TokenTransferFailed", g, 0, None)
      ELSE LET g1 == [g EXCEPT !.players =
                         Append(@, PlayerState(player_pubkey, start_x, start_y, TRUE))]
           IN
        IF g1.prize_pool + g1.buy_in > U64_MAX
        THEN Outcome("Panic", g1, g.buy_in, "escrow")
        ELSE LET g2 == [g1 EXCEPT !.prize_pool = @ + g1.buy_in]
                 g3 == IF Len(g2.players) >= 2 THEN [g2 EXCEPT !.status = 1] ELSE g2
             IN Outcome("Ok", g3, g.buy_in, "escrow")

join_game(g, player_pubkey, start_x, start_y, transfer_ok) ==
    IF ~(g.status = 0) THEN Outcome("GameNotJoinable", g, 0, None)
    ELSE IF ~(Len(g.players) < MAX_PLAYERS) THEN Outcome("GameFull", g, 0, None)
    ELSE LET tile_idx == TileIdx(g, start_x, start_y) IN
      IF ~(tile_idx < Len(g.grid)) THEN Outcome("OutOfBounds", g, 0, None)
      ELSE IF ~(GridAt(g, tile_idx) = 0) THEN Outcome("TileIsLava", g, 0, None)
      ELSE IF \E i \in 1..Len(g.players) :
                 g.players[i].x = start_x /\ g.players[i].y = start_y
        THEN Outcome("TileOccupied", g, 0, None)
      ELSE IF ~transfer_ok THEN Outcome("TokenTransferFailed", g, 0, None)
      ELSE LET g1 == [g EXCEPT !.players =
                         Append(@, PlayerState(player_pubkey, start_x, start_y, TRUE))]
           IN
        \* checked_add(..).unwrap() panics on overflow: the transaction aborts
        IF g1.prize_pool + g1.buy_in > U64_MAX
        THEN Outcome("Panic", g1, g.buy_in, "escrow")
        ELSE LET g2 == [g1 EXCEPT !.prize_pool = @ + g1.buy_in]
                 g3 == IF Len(g2.players) >= 2 THEN [g2 EXCEPT !.status = 1] ELSE g2
             IN Outcome("Ok", g3, g.buy_in, "escrow")

\* index of the first roster entry with this pubkey, 0 when there is none
FindPlayer(players, player_key) ==
    IF \E i \in 1..Len(players) : players[i].pubkey = player_key
    THEN CHOOSE i \in 1..Len(players) :
           /\ players[i].pubkey = player_key
           /\ \A j \in 1..(i - 1) : players[j].pubkey # player_key
    ELSE 0

Abs(n) == IF n < 0 THEN -n ELSE n

\* submit_move accepting any of the eight neighbouring tiles (max(dx, dy) == 1)
submit_move_diagonal(g, player_key, new_x, new_y) ==
    IF ~(g.status = 1) THEN Outcome("GameNotActive", g, 0, None)
    ELSE LET i == FindPlayer(g.players, player_key) IN
      IF i = 0 THEN Outcome("PlayerNotInGame", g, 0, None)
      ELSE LET player_state == g.players[i]
               dx == Abs(new_x - player_state.x)
               dy == Abs(new_y - player_state.y)
               tile_idx == TileIdx(g, new_x, new_y)
           IN
        IF ~player_state.alive THEN Outcome("PlayerEliminated", g, 0, None)
        ELSE IF ~((IF dx > dy THEN dx ELSE dy) = 1) THEN Outcome("InvalidMove", g, 0, None)
        ELSE IF ~(tile_idx < Len(g.grid)) THEN Outcome("OutOfBounds", g, 0, None)
        ELSE IF ~(GridAt(g, tile_idx) = 0) THEN Outcome("TileIsLava", g, 0, None)
        ELSE Outcome("Ok",
                     [g EXCEPT !.players[i].x = new_x, !.players[i].y = new_y],
                     0, None)

\* submit_move without the alive check
submit_move_no_alive_check(g, player_key, new_x, new_y) ==
    IF ~(g.status = 1) THEN Outcome("GameNotActive", g, 0, None)
    ELSE LET i == FindPlayer(g.players, player_key) IN
      IF i = 0 THEN Outcome("PlayerNotInGame", g, 0, None)
      ELSE LET player_state == g.players[i]
               dx == Abs(new_x - player_state.x)
               dy == Abs(new_y - player_state.y)
               tile_idx == TileIdx(g, new_x, new_y)
           IN
        IF ~(dx + dy = 1) THEN Outcome("InvalidMove", g, 0, None)
        ELSE IF ~(tile_idx < Len(g.grid)) THEN Outcome("OutOfBounds", g, 0, None)
        ELSE IF ~(GridAt(g, tile_idx) = 0) THEN Outcome("TileIsLava", g, 0, None)
        ELSE Outcome("Ok",
                     [g EXCEPT !.players[i].x = new_x, !.players[i].y = new_y],
                     0, None)

submit_move(g, player_key, new_x, new_y) ==
    IF ~(g.status = 1) THEN Outcome("GameNotActive", g, 0, None)
    ELSE LET i == FindPlayer(g.players, player_key) IN
      IF i = 0 THEN Outcome("PlayerNotInGame", g, 0, None)
      ELSE LET player_state == g.players[i]
               dx == Abs(new_x - player_state.x)
               dy == Abs(new_y - player_state.y)
               tile_idx == TileIdx(g, new_x, new_y)
           IN
        IF ~player_state.alive THEN Outcome("PlayerEliminated", g, 0, None)
        ELSE IF ~(dx + dy = 1) THEN Outcome("InvalidMove", g, 0, None)
        ELSE IF ~(tile_idx < Len(g.grid)) THEN Outcome("OutOfBounds", g, 0, None)
        ELSE IF ~(GridAt(g, tile_idx) = 0) THEN Outcome("TileIsLava", g, 0, None)
        ELSE Outcome("Ok",
                     [g EXCEPT !.players[i].x = new_x, !.players[i].y = new_y],
                     0, None)

\* the first loop of trigger_collapse: every listed tile whose index is in
\* the grid becomes lava
RECURSIVE CollapseTiles(_, _, _)
CollapseTiles(grid, grid_size, tiles) ==
    IF tiles = <<>> THEN grid
    ELSE LET tx == Head(tiles)[1]
             ty == Head(tiles)[2]
             idx == ty * grid_size + tx
         IN CollapseTiles(IF idx < Len(grid) THEN [grid EXCEPT ![idx + 1] = 1]
                                              ELSE grid,
                          grid_size, Tail(tiles))

\* trigger_collapse without its elimination loop
EliminatePlayers_skipped(g) == g

\* the second loop: alive players standing on lava are eliminated
EliminatePlayers(g) ==
    [g EXCEPT !.players =
        [i \in 1..Len(g.players) |->
            LET p == g.players[i] IN
            IF p.alive /\ GridAt(g, TileIdx(g, p.x, p.y)) = 1
            THEN [p EXCEPT !.alive = FALSE]
            ELSE p]]

\* trigger_collapse counting rounds with wrapping_add in place of checked_add
trigger_collapse_wrapping_add(g, tiles) ==
    IF ~(g.status = 1) THEN Outcome("GameNotActive", g, 0, None)
    ELSE LET g1 == [g EXCEPT !.grid = CollapseTiles(g.grid, g.grid_size, tiles)]
             g2 == EliminatePlayers(g1)
         IN Outcome("Ok",
                    [g2 EXCEPT !.collapse_round = (@ + 1) % (U8_MAX + 1)],
                    0, None)

trigger_collapse(g, tiles) ==
    IF ~(g.status = 1) THEN Outcome("GameNotActive", g, 0, None)
    ELSE LET g1 == [g EXCEPT !.grid = CollapseTiles(g.grid, g.grid_size, tiles)]
             g2 == EliminatePlayers(g1)
         IN
      \* checked_add(1).unwrap() on the u8 counter
      IF g2.collapse_round + 1 > U8_MAX THEN Outcome("Panic", g2, 0, None)
      ELSE Outcome("Ok", [g2 EXCEPT !.collapse_round = @ + 1], 0, None)

AlivePlayers(g) == SelectSeq(g.players, LAMBDA p : p.alive)

\* declare_winner leaving status at 1 (the "resolved" assignment dropped)
declare_winner_stays_active(g, transfer_ok, to) ==
    IF ~(g.status = 1) THEN Outcome("GameNotActive", g, 0, None)
    ELSE LET alive == AlivePlayers(g) IN
      IF ~(Len(alive) = 1) THEN Outcome("GameNotResolved", g, 0, None)
      ELSE LET g1 == [g EXCEPT !.winner = alive[1].pubkey] IN
        IF ~transfer_ok THEN Outcome("TokenTransferFailed", g1, 0, None)
        ELSE Outcome("Ok", [g1 EXCEPT !.prize_pool = 0], g1.prize_pool, to)

\* declare_winner resolving the game without recording the winner
declare_winner_no_winner(g, transfer_ok, to) ==
    IF ~(g.status = 1) THEN Outcome("GameNotActive", g, 0, None)
    ELSE LET alive == AlivePlayers(g) IN
      IF ~(Len(alive) = 1) THEN Outcome("GameNotResolved", g, 0, None)
      ELSE LET g1 == [g EXCEPT !.status = 2] IN
        IF ~transfer_ok THEN Outcome("TokenTransferFailed", g1, 0, None)
        ELSE Outcome("Ok", [g1 EXCEPT !.prize_pool = 0], g1.prize_pool, to)

\* declare_winner rejecting only a waiting game (status != 0 for status == 1)
declare_winner_any_started(g, transfer_ok, to) ==
    IF ~(g.status # 0) THEN Outcome("GameNotActive", g, 0, None)
    ELSE LET alive == AlivePlayers(g) IN
      IF ~(Len(alive) = 1) THEN Outcome("GameNotResolved", g, 0, None)
      ELSE LET g1 == [g EXCEPT !.winner = alive[1].pubkey, !.status = 2] IN
        IF ~transfer_ok THEN Outcome("TokenTransferFailed", g1, 0, None)
        ELSE Outcome("Ok", [g1 EXCEPT !.prize_pool = 0], g1.prize_pool, to)

\* declare_winner accepting any non-empty set of survivors (alive.len() >= 1)
declare_winner_some_alive(g, transfer_ok, to) ==
    IF ~(g.status = 1) THEN Outcome("GameNotActive", g, 0, None)
    ELSE LET alive == AlivePlayers(g) IN
      IF ~(Len(alive) >= 1) THEN Outcome("GameNotResolved", g, 0, None)
      ELSE LET g1 == [g EXCEPT !.winner = alive[1].pubkey, !.status = 2] IN
        IF ~transfer_ok THEN Outcome("TokenTransferFailed", g1, 0, None)
        ELSE Outcome("Ok", [g1 EXCEPT !.prize_pool = 0], g1.prize_pool, to)

\* `to` is the owner of the winner_token_account the caller passed in
declare_winner(g, transfer_ok, to) ==
    IF ~(g.status = 1) THEN Outcome("GameNotActive", g, 0, None)
    ELSE LET alive == AlivePlayers(g) IN
      IF ~(Len(alive) = 1) THEN Outcome("GameNotResolved", g, 0, None)
      ELSE LET winner_pubkey == alive[1].pubkey
               g1 == [g EXCEPT !.winner = winner_pubkey, !.status = 2]
           IN
        IF ~transfer_ok THEN Outcome("TokenTransferFailed", g1, 0, None)
        ELSE Outcome("Ok", [g1 EXCEPT !.prize_pool = 0], g1.prize_pool, to)

\* has_one = authority on TriggerCollapse and DeclareWinner
HasOneAuthority(g, caller) == g.authority = caller

\* a transaction whose account writes survive a returned error
Commit_keeps_failed_writes(g, out) == out.game

\* The transaction's outcome on the account: kept on Ok, discarded otherwise.
Commit(g, out) == IF out.err = "Ok" THEN out.game ELSE g

\* The token transfer of a transaction is kept only when it commits.
Transferred(out) == IF out.err = "Ok" THEN out.amount ELSE 0

Init ==
    /\ game = Uninitialized
    /\ collected = 0
    /\ paidOut = 0
    /\ payouts = 0
    /\ paidTo = None
    /\ lastCmd = "none"
    /\ lastRes = "none"

Create ==
    /\ ~game.initialized
    /\ \E buy_in \in BuyIns, grid_size \in GridSizes :
         LET out == initialize_game(game, Authority, buy_in, grid_size) IN
         /\ game' = Commit(game, out)
         /\ lastCmd' = "create"
         /\ lastRes' = out.err
    /\ UNCHANGED <<collected, paidOut, payouts, paidTo>>

Join ==
    /\ game.initialized
    /\ \E player_pubkey \in Pubkeys, start_x \in Coords, start_y \in Coords,
          transfer_ok \in BOOLEAN :
         LET out == join_game(game, player_pubkey, start_x, start_y, transfer_ok) IN
         /\ game' = Commit(game, out)
         /\ collected' = collected + Transferred(out)
         /\ lastCmd' = "join"
         /\ lastRes' = out.err
    /\ UNCHANGED <<paidOut, payouts, paidTo>>

Move ==
    /\ game.initialized
    /\ \E player_key \in Pubkeys, new_x \in Coords, new_y \in Coords :
         LET out == submit_move(game, player_key, new_x, new_y) IN
         /\ game' = Commit(game, out)
         /\ lastCmd' = "move"
         /\ lastRes' = out.err
    /\ UNCHANGED <<collected, paidOut, payouts, paidTo>>

\* one trigger_collapse transaction
CollapseStep ==
    /\ game.initialized
    /\ \E caller \in Callers :
       \E tiles \in IF HasOneAuthority(game, caller) THEN TileLists ELSE {<<>>} :
         LET out == IF HasOneAuthority(game, caller)
                    THEN trigger_collapse(game, tiles)
                    ELSE Outcome("ConstraintHasOne", game, 0, None)
         IN
         /\ game' = Commit(game, out)
         /\ lastCmd' = "collapse"
         /\ lastRes' = out.err
    /\ UNCHANGED <<collected, paidOut, payouts, paidTo>>

Collapse ==
    /\ game.collapse_round < MaxRounds
    /\ CollapseStep

Settle ==
    /\ game.initialized
    /\ \E caller \in Callers :
       \E transfer_ok \in IF HasOneAuthority(game, caller) THEN BOOLEAN ELSE {TRUE},
          to \in IF HasOneAuthority(game, caller) THEN Pubkeys ELSE {"p1"} :
         LET out == IF HasOneAuthority(game, caller)
                    THEN declare_winner(game, transfer_ok, to)
                    ELSE Outcome("ConstraintHasOne", game, 0, None)
         IN
         /\ game' = Commit(game, out)
         /\ paidOut' = paidOut + Transferred(out)
         /\ payouts' = IF out.err = "Ok" THEN payouts + 1 ELSE payouts
         /\ paidTo' = IF out.err = "Ok" THEN out.to ELSE paidTo
         /\ lastCmd' = "settle"
         /\ lastRes' = out.err
    /\ UNCHANGED collected

Next ==
    \/ Create
    \/ Join
    \/ Move
    \/ Collapse
    \/ Settle

Spec == Init /\ [][Next]_vars

\* An active 2x2 game late in its life: created with buy_in 50, joined by p1
\* at (0,0) and p2 at (1,0), then collapsed U8_MAX - 2 times with an empty
\* tile list, which changes collapse_round and nothing else.
LateGame ==
    [initialized |-> TRUE, authority |-> Authority, status |-> 1, grid_size |-> 2,
     grid |-> <<0, 0, 0, 0>>,
     players |-> <<PlayerState("p1", 0, 0, TRUE), PlayerState("p2", 1, 0, TRUE)>>,
     buy_in |-> 50, prize_pool |-> 100, winner |-> None,
     collapse_round |-> U8_MAX - 2]

InitLate ==
    /\ game = LateGame
    /\ collected = 100
    /\ paidOut = 0
    /\ payouts = 0
    /\ paidTo = None
    /\ lastCmd = "collapse"
    /\ lastRes = "Ok"

\* the instructions on the late game; collapse_round is bounded by its u8
NextLate ==
    \/ Join
    \/ Move
    \/ CollapseStep
    \/ Settle

SpecLate == InitLate /\ [][NextLate]_vars

\* ---- the claims ----------------------------------------------------------

Alive(g) == Len(AlivePlayers(g))

\* C1: the tokens paid out of the escrow never exceed the tokens collected by
\* joins, and at most one payout transfer is ever committed for the game.
C1_PayoutBounded ==
    /\ paidOut <= collected
    /\ payouts <= 1

\* a payout of a non-empty pool has been made
C1_Witness == payouts = 1 /\ paidOut > 0 /\ paidOut = collected

\* C2: while the game is waiting or active prize_pool is buy_in times the
\* number of roster entries; once resolved it is 0.
C2_PrizePoolAccounting ==
    /\ game.status \in {0, 1} => game.prize_pool = game.buy_in * Len(game.players)
    /\ game.status = 2 => game.prize_pool = 0

\* a resolved game whose pool held two positive buy-ins
C2_Witness ==
    /\ game.status = 2
    /\ game.prize_pool = 0
    /\ game.buy_in > 0
    /\ collected = game.buy_in * Len(game.players)

\* C3: status changes only 0 -> 1, by the successful join that makes the
\* roster two entries long, and 1 -> 2, by a successful settle; that join and
\* that settle always make the step, and a move succeeds only on status 1.
C3_StatusSteps ==
    [][/\ game'.status # game.status =>
            \/ /\ game.status = 0 /\ game'.status = 1
               /\ lastCmd' = "join" /\ lastRes' = "Ok"
               /\ Len(game.players) = 1 /\ Len(game'.players) = 2
            \/ /\ game.status = 1 /\ game'.status = 2
               /\ lastCmd' = "settle" /\ lastRes' = "Ok"
       /\ (lastCmd' = "join" /\ lastRes' = "Ok" /\ Len(game'.players) = 2)
            => (game.status = 0 /\ game'.status = 1)
       /\ (lastCmd' = "join" /\ lastRes' = "Ok" /\ Len(game'.players) < 2)
            => game'.status = 0
       /\ (lastCmd' = "settle" /\ lastRes' = "Ok")
            => (game.status = 1 /\ game'.status = 2)
       /\ (lastCmd' = "move" /\ lastRes' = "Ok")
            => (game.status = 1 /\ game'.status = 1)
      ]_vars

\* a game that went through both steps and then saw a move attempt
C3_Witness ==
    /\ game.status = 2
    /\ Len(game.players) = 2
    /\ lastCmd = "move"

\* C4: winner is set exactly when status is 2 (resolved), and a set winner
\* never changes.
C4_WinnerIffResolved ==
    [][/\ (game.winner # None) <=> (game.status = 2)
       /\ (game'.winner # None) <=> (game'.status = 2)
       /\ game.winner # None => game'.winner = game.winner
      ]_vars

\* a resolved game with its winner, after a later settle attempt
C4_Witness ==
    /\ game.status = 2
    /\ game.winner \in Pubkeys
    /\ lastCmd = "settle"
    /\ lastRes # "Ok"

NoSharedPosition(players) ==
    \A i, j \in 1..Len(players) :
        i # j => ~(players[i].x = players[j].x /\ players[i].y = players[j].y)

\* C6 as stated: no two alive roster entries ever have the same (x, y).
C6_NoTwoAliveShareTile ==
    \A i, j \in 1..Len(game.players) :
        (i # j /\ game.players[i].alive /\ game.players[j].alive)
            => ~(/\ game.players[i].x = game.players[j].x
                 /\ game.players[i].y = game.players[j].y)

\* C6 as amended: right after a successful join no two roster entries have
\* the same (x, y); submit_move checks no occupancy.
C6_JoinKeepsPositionsApart ==
    (lastCmd = "join" /\ lastRes = "Ok") => NoSharedPosition(game.players)

\* the second join has just succeeded
C6_Witness ==
    /\ lastCmd = "join"
    /\ lastRes = "Ok"
    /\ Len(game.players) = 2

\* C7: no two roster entries have the same pubkey.
C7_UniqueIdentities ==
    \A i, j \in 1..Len(game.players) :
        i # j => game.players[i].pubkey # game.players[j].pubkey

C9_SettlePaysSurvivor ==
    (lastCmd = "settle" /\ lastRes = "Ok") =>
        /\ game.status = 2
        /\ game.prize_pool = 0
        /\ Alive(game) = 1
        /\ game.winner = AlivePlayers(game)[1].pubkey
        /\ paidOut = game.buy_in * Len(game.players)
        /\ paidTo = game.winner

\* C10: declare_winner on an active game with no alive player or with more
\* than one returns GameNotResolved, pays nothing and leaves the account as
\* it was.
C10_SettleNeedsOneSurvivor ==
    /\ (game.status = 1 /\ Alive(game) # 1) =>
          \A transfer_ok \in BOOLEAN, to \in Pubkeys :
              LET out == declare_winner(game, transfer_ok, to) IN
              /\ out.err = "GameNotResolved"
              /\ Commit(game, out) = game
              /\ Transferred(out) = 0
    /\ (lastCmd = "settle" /\ lastRes = "GameNotResolved") =>
          /\ game.status = 1
          /\ Alive(game) # 1
          /\ game.prize_pool = game.buy_in * Len(game.players)
          /\ paidOut = 0

\* a settle was rejected on an active game with nobody alive
C10_Witness ==
    /\ lastCmd = "settle"
    /\ lastRes = "GameNotResolved"
    /\ game.status = 1
    /\ Alive(game) = 0
    /\ game.prize_pool > 0

\* C11: initialize_game succeeds exactly for 1 <= grid_size <= 10; a rejected
\* create leaves no record, an accepted one leaves a waiting record with
\* grid_size * grid_size safe cells, no players, prize_pool 0 and
\* collapse_round 0.
C11_CreateValidatesGridSize ==
    /\ \A buy_in \in BuyIns, grid_size \in 1..MAX_GRID_SIZE :
          initialize_game(Uninitialized, Authority, buy_in, grid_size).err = "Ok"
    /\ (lastCmd = "create" /\ lastRes # "Ok") => ~game.initialized
    /\ (lastCmd = "create" /\ lastRes = "Ok") =>
          /\ game.initialized
          /\ 1 <= game.grid_size /\ game.grid_size <= MAX_GRID_SIZE
          /\ game.status = 0
          /\ Len(game.grid) = game.grid_size * game.grid_size
          /\ \A i \in 1..Len(game.grid) : game.grid[i] = 0
          /\ game.players = <<>>
          /\ game.prize_pool = 0
          /\ game.collapse_round = 0

\* C12: a game that is not resolved and holds fewer than MAX_PLAYERS entries
\* takes one more player: a join by an identity not yet in the roster, on a
\* safe in-bounds tile nobody stands on, with the buy-in paid, succeeds and
\* adds buy_in to the pool (so five joins at buy_in 100 make 500); GameFull is
\* returned only at MAX_PLAYERS entries.
C12_JoinWhileRoom ==
    (game.initialized /\ game.status # 2) =>
        \A player_pubkey \in Pubkeys \cup {"p3"}, x \in Coords, y \in Coords :
            LET out == join_game(game, player_pubkey, x, y, TRUE) IN
            /\ (/\ Len(game.players) < MAX_PLAYERS
                /\ x < game.grid_size /\ y < game.grid_size
                /\ GridAt(game, TileIdx(game, x, y)) = 0
                /\ \A i \in 1..Len(game.players) :
                      /\ game.players[i].pubkey # player_pubkey
                      /\ ~(game.players[i].x = x /\ game.players[i].y = y)
                /\ game.prize_pool + game.buy_in <= U64_MAX)
               => /\ out.err = "Ok"
                  /\ Len(out.game.players) = Len(game.players) + 1
                  /\ out.game.prize_pool = game.buy_in * Len(out.game.players)
            /\ out.err = "GameFull" => Len(game.players) = MAX_PLAYERS

\* C13: two joins by different identities on the same tile of a waiting game
\* are processed one after the other (the account is write-locked per
\* transaction); whichever runs first, if it succeeds the second fails with
\* TileOccupied, collects nothing and adds no entry.
C13_SameTileJoins ==
    (game.initialized /\ game.status = 0) =>
        \A first \in Pubkeys, second \in Pubkeys, x \in Coords, y \in Coords,
           ok1 \in BOOLEAN, ok2 \in BOOLEAN :
            LET out1 == join_game(game, first, x, y, ok1)
                g1 == Commit(game, out1)
                out2 == join_game(g1, second, x, y, ok2)
            IN (first # second /\ out1.err = "Ok") =>
                  /\ out2.err = "TileOccupied"
                  /\ Commit(g1, out2) = g1
                  /\ Transferred(out2) = 0

\* C14: submit_move returns Ok only for a target at Manhattan distance 1 from
\* the mover (a zero-length, diagonal or longer move of an alive player of an
\* active game returns InvalidMove), and an Ok move changes the mover's x and
\* y and nothing else of the account.
C14_MoveOneStep ==
    game.initialized =>
        \A player_key \in Pubkeys, new_x \in Coords, new_y \in Coords :
            LET out == submit_move(game, player_key, new_x, new_y)
                i == FindPlayer(game.players, player_key)
                sq(n) == n * n
            IN
            /\ out.err = "Ok" =>
                  /\ i # 0
                  /\ sq(new_x - game.players[i].x) + sq(new_y - game.players[i].y) = 1
                  /\ out.game.players[i].x = new_x
                  /\ out.game.players[i].y = new_y
                  /\ out.game.players[i].alive = game.players[i].alive
                  /\ out.game.players[i].pubkey = game.players[i].pubkey
                  /\ Len(out.game.players) = Len(game.players)
                  /\ \A j \in 1..Len(game.players) :
                        j # i => out.game.players[j] = game.players[j]
                  /\ [out.game EXCEPT !.players = game.players] = game
                  /\ out.amount = 0
            /\ (/\ game.status = 1
                /\ i # 0
                /\ game.players[i].alive
                /\ sq(new_x - game.players[i].x) + sq(new_y - game.players[i].y) # 1)
               => out.err = "InvalidMove"

\* a move has just succeeded
C14_Witness ==
    /\ lastCmd = "move"
    /\ lastRes = "Ok"
    /\ Alive(game) = 2

\* C15: every roster entry has x < grid_size and y < grid_size, and a join on
\* a waiting game with room whose target has x >= grid_size or
\* y >= grid_size fails with OutOfBounds.
C15_RosterInBounds ==
    /\ \A i \in 1..Len(game.players) :
          /\ game.players[i].x < game.grid_size
          /\ game.players[i].y < game.grid_size
    /\ (game.initialized /\ game.status = 0) =>
          \A player_pubkey \in Pubkeys, x \in Coords, y \in Coords :
              (x >= game.grid_size \/ y >= game.grid_size)
                  => join_game(game, player_pubkey, x, y, TRUE).err = "OutOfBounds"

\* C16: a successful collapse makes lava exactly the cells of the listed
\* tiles with tx < grid_size and ty < grid_size; a listed tile with
\* tx >= grid_size or ty >= grid_size changes no cell, and every other cell
\* keeps its value.
C16_CollapseExactTiles ==
    (game.initialized /\ game.status = 1) =>
        \A tiles \in TileLists :
            LET out == trigger_collapse(game, tiles) IN
            out.err = "Ok" =>
                \A i \in 1..Len(game.grid) :
                    out.game.grid[i] =
                        IF \E k \in 1..Len(tiles) :
                              /\ tiles[k][1] < game.grid_size
                              /\ tiles[k][2] < game.grid_size
                              /\ tiles[k][2] * game.grid_size + tiles[k][1] = i - 1
                        THEN 1
                        ELSE game.grid[i]

\* C17: every alive roster entry stands on a safe cell (the cell its x and y
\* index, y * grid_size + x): a collapse eliminates in the same transaction
\* whoever stands on a cell it turned to lava, and join and move reject a
\* lava target.
C17_AliveOnSafe ==
    \A i \in 1..Len(game.players) :
        game.players[i].alive =>
            /\ TileIdx(game, game.players[i].x, game.players[i].y) < Len(game.grid)
            /\ GridAt(game, TileIdx(game, game.players[i].x, game.players[i].y)) = 0

\* a collapse has just eliminated one player and spared the other
C17_Witness ==
    /\ lastCmd = "collapse"
    /\ lastRes = "Ok"
    /\ Alive(game) = 1
    /\ \E i \in 1..Len(game.players) :
          /\ ~game.players[i].alive
          /\ GridAt(game, TileIdx(game, game.players[i].x, game.players[i].y)) = 1

\* C18 as stated: an eliminated roster entry is never alive again and keeps
\* its x and y, and every move signed by its pubkey fails with
\* PlayerEliminated.
C18_EliminatedMovesRejected ==
    [][\A i \in 1..Len(game.players) :
          ~game.players[i].alive =>
              /\ game'.players[i] = game.players[i]
              /\ \A new_x \in Coords, new_y \in Coords :
                    submit_move(game, game.players[i].pubkey, new_x, new_y).err
                        = "PlayerEliminated"
      ]_vars

\* C18 as amended: an eliminated roster entry is never alive again and keeps
\* its x and y; a move signed by its pubkey fails with PlayerEliminated while
\* the game is active and the entry is the first of that pubkey, and with
\* GameNotActive once the game is resolved (looked at on every move step).
C18_EliminationIsPermanent ==
    [][\A i \in 1..Len(game.players) :
          ~game.players[i].alive =>
              /\ game'.players[i] = game.players[i]
              /\ game.status \in {1, 2}
              /\ lastCmd' = "move" =>
                    \A new_x \in Coords, new_y \in Coords :
                       LET out == submit_move(game, game.players[i].pubkey, new_x, new_y)
                       IN /\ (/\ game.status = 1
                              /\ FindPlayer(game.players, game.players[i].pubkey) = i)
                             => out.err = "PlayerEliminated"
                          /\ game.status = 2 => out.err = "GameNotActive"
      ]_vars

\* a move by an eliminated player was rejected after the last possible collapse
C18_Witness ==
    /\ lastCmd = "move"
    /\ lastRes = "PlayerEliminated"
    /\ Alive(game) = 1
    /\ game.collapse_round = U8_MAX

C20_NoSurvivorNeverResolves ==
    [][/\ (game.status = 1 /\ Alive(game) = 0) =>
             /\ game'.status = 1
             /\ Alive(game') = 0
             /\ game'.prize_pool = game.prize_pool
             /\ paidOut' = paidOut
             /\ payouts' = payouts
             /\ lastCmd' \in {"join", "move", "settle"} => lastRes' # "Ok"
       /\ (game.status = 1 /\ game'.status = 2) => Alive(game) >= 1
      ]_vars

\* the pool of a game with nobody alive is still held after a refused join
C20_Witness ==
    /\ game.status = 1
    /\ Alive(game) = 0
    /\ game.prize_pool > 0
    /\ paidOut = 0
    /\ lastCmd = "join"
    /\ lastRes = "GameNotJoinable"
====
